---- MODULE Spec2Model ----
(***************************************************************************)
(* python-simple-etl: the DataProcessingPipeline class                     *)
(* (src/DataProcessingPipeline.py), the stage functions it chains, the     *)
(* configuration reader (src/config.py) and the RunETL script              *)
(* (src/RunETL.py), as a state machine.                                    *)
(*                                                                         *)
(* Representation.                                                         *)
(*  - A Python str is the sequence of its characters.                      *)
(*  - A cell of a DataFrame is a tagged value: Str(s) a str, Num(n) an     *)
(*    integer, Flt(n) the float n.0, NaN the float pandas puts in a blank  *)
(*    cell, Digest(s) the hexdigest of md5 over the characters s (md5 is   *)
(*    taken as injective).                                                 *)
(*  - A DataFrame is [cols, dt, rows]: the column names in order, the      *)
(*    dtype of every column, and the rows in order, run-length encoded:    *)
(*    a group [row |-> r, n |-> k] stands for k consecutive rows equal to  *)
(*    r (index labels are always 0..len-1, so positions are labels).       *)
(*  - The destination table holds the committed rows, as the tuples        *)
(*    to_records produced, run-length encoded and normalised.              *)
(***************************************************************************)
EXTENDS Integers, Sequences, FiniteSets, TLC

VARIABLES
    sheet,        \* the spreadsheet on disk: its rows (run-length encoded)
    source,       \* the file_path of the last load_data call (None before any)
    df,           \* DataProcessingPipeline.df: None or a DataFrame
    status,       \* "running", or "raised" once an exception left a stage uncaught
    last,         \* the last method called on the pipeline and what it did
    quarantine,   \* the last file written under "Error Output", or NoFile
    dest,         \* committed rows of manual_upload_tlnk
    conn          \* the connection of the last write_to_postgres call

vars == <<sheet, source, df, status, last, quarantine, dest, conn>>

-----------------------------------------------------------------------------
(* Bounds *)

\* Largest number of row groups in the spreadsheet.
MaxGroups == 2

-----------------------------------------------------------------------------
(* Python values *)

None == [py |-> "None"]
Str(s) == [t |-> "str", s |-> s]
Num(n) == [t |-> "num", n |-> n]
Flt(n) == [t |-> "float", n |-> n]
NaN == [t |-> "nan"]
Digest(s) == [t |-> "md5", of |-> s]

IsSpace(c) == c \in {" ", "\t", "\n"}

RECURSIVE lstrip(_)
lstrip(s) == IF s # <<>> /\ IsSpace(Head(s)) THEN lstrip(Tail(s)) ELSE s

RECURSIVE rstrip(_)
rstrip(s) ==
    IF s # <<>> /\ IsSpace(s[Len(s)]) THEN rstrip(SubSeq(s, 1, Len(s) - 1)) ELSE s

\* str.strip()
strip(s) == rstrip(lstrip(s))

Digit(d) == <<"0", "1", "2", "3", "4", "5", "6", "7", "8", "9">>[d + 1]

RECURSIVE IntToStr(_)
IntToStr(n) == IF n < 10 THEN <<Digit(n)>> ELSE IntToStr(n \div 10) \o <<Digit(n % 10)>>

\* str(x): a float prints with ".0", NaN prints "nan".
PyStr(x) ==
    CASE x.t = "str" -> x.s
      [] x.t = "nan" -> <<"n", "a", "n">>
      [] x.t = "num" -> IntToStr(x.n)
      [] x.t = "float" -> IntToStr(x.n) \o <<".", "0">>

\* str.zfill(width)
RECURSIVE zfill(_, _)
zfill(s, width) == IF Len(s) >= width THEN s ELSE zfill(<<"0">> \o s, width)

-----------------------------------------------------------------------------
(* Run-length encoded row sequences *)

RECURSIVE NRows(_)
NRows(g) == IF g = <<>> THEN 0 ELSE Head(g).n + NRows(Tail(g))

\* The first m rows.
RECURSIVE Take(_, _)
Take(g, m) ==
    IF m <= 0 \/ g = <<>> THEN <<>>
    ELSE IF Head(g).n <= m THEN <<Head(g)>> \o Take(Tail(g), m - Head(g).n)
    ELSE <<[Head(g) EXCEPT !.n = m]>>

\* All but the first m rows.
RECURSIVE Drop(_, _)
Drop(g, m) ==
    IF m <= 0 \/ g = <<>> THEN g
    ELSE IF Head(g).n <= m THEN Drop(Tail(g), m - Head(g).n)
    ELSE <<[Head(g) EXCEPT !.n = @ - m]>> \o Tail(g)

\* The same rows with adjacent equal rows in one group.
RECURSIVE Norm(_)
Norm(g) ==
    IF Len(g) <= 1 THEN g
    ELSE LET r == Norm(Tail(g))
         IN  IF Head(g).row = Head(r).row
             THEN <<[Head(r) EXCEPT !.n = @ + Head(g).n]>> \o Tail(r)
             ELSE <<Head(g)>> \o r

\* The groups of g at the positions in keep, in order.
RECURSIVE Select(_, _, _)
Select(g, keep, i) ==
    IF i > Len(g) THEN <<>>
    ELSE (IF i \in keep THEN <<g[i]>> ELSE <<>>) \o Select(g, keep, i + 1)

-----------------------------------------------------------------------------
(* The spreadsheet *)

SourceCols == <<"Controlling_Area", "Company_Code", "Cost_Object", "Cost_Object_Type",
                "Cost_Element", "Year", "Period", "Currency", "Amount">>

TextCols == {"Controlling_Area", "Company_Code", "Cost_Object", "Cost_Object_Type",
             "Cost_Element", "Currency"}

NumCols == {"Year", "Period", "Amount"}

CostCenter == <<"C", "o", "s", "t", " ", "C", "e", "n", "t", "e", "r">>
WBS == <<"W", "B", "S">>
COPA == <<"C", "O", "P", "A">>
Vendor == <<"V", "e", "n", "d", "o", "r">>

SheetRow(ca, cc, co, cot, ce, y, p, cur, amt) ==
    [Controlling_Area |-> ca, Company_Code |-> cc, Cost_Object |-> co,
     Cost_Object_Type |-> cot, Cost_Element |-> ce, Year |-> y, Period |-> p,
     Currency |-> cur, Amount |-> amt]

\* The rows a spreadsheet is made of: a Cost Center row with surrounding
\* whitespace, a row failing R1 and R2, a row failing R3, a block of 100 valid
\* WBS rows, a Cost Center row with blank cells, a WBS row with a blank
\* Cost_Object, a WBS row with a blank Year, and a row whose type is valid
\* only once trimmed.
Catalogue ==
    { [row |-> SheetRow(Str(<<"1", " ">>), Str(<<"7">>), Str(<<" ", "C">>), Str(CostCenter),
                        Str(<<"4">>), Num(2024), Num(3), Str(<<"E">>), Num(5)),
       n |-> 1],
      [row |-> SheetRow(Str(<<"1">>), Str(<<"7">>), Str(<<"V">>), Str(Vendor),
                        Str(<<"4">>), Num(1999), Num(3), Str(<<"E">>), Num(5)),
       n |-> 1],
      [row |-> SheetRow(Str(<<"1">>), Str(<<"7">>), Str(<<"W">>), Str(WBS),
                        Str(<<"4">>), Num(2000), Num(13), Str(<<"E">>), Num(5)),
       n |-> 1],
      [row |-> SheetRow(Str(<<"2">>), Str(<<"7">>), Str(<<"W">>), Str(WBS),
                        Str(<<"4">>), Num(2024), Num(12), Str(<<"E">>), Num(5)),
       n |-> 100],
      [row |-> SheetRow(NaN, Str(<<"7">>), Str(<<"C">>), Str(CostCenter),
                        Str(<<"4">>), NaN, Num(1), NaN, Num(5)),
       n |-> 1],
      [row |-> SheetRow(Str(<<"3">>), Str(<<"7">>), NaN, Str(WBS),
                        Str(<<"4">>), Num(2024), Num(1), Str(<<"E">>), Num(5)),
       n |-> 1],
      [row |-> SheetRow(Str(<<"4">>), Str(<<"7">>), Str(<<"W">>), Str(WBS),
                        Str(<<"4">>), NaN, Num(2), Str(<<"E">>), Num(5)),
       n |-> 1],
      [row |-> SheetRow(Str(<<"1">>), Str(<<"7">>), Str(<<"P">>), Str(COPA \o <<" ">>),
                        Str(<<"4">>), Num(2001), Num(0), Str(<<"E">>), Num(5)),
       n |-> 1] }

Sheets == UNION {[1..k -> Catalogue] : k \in 0..MaxGroups}

\* schema.json as read_schema_file returns it: None when the file cannot be
\* read, else the type name of every column.
TypedSchema ==
    [c \in TextCols \cup NumCols |-> IF c \in TextCols THEN "str" ELSE "int64"]

Paths == {<<"a", ".", "x">>, <<" ", "a", ".", "x">>}

-----------------------------------------------------------------------------
(* DataFrames *)

\* df[c] = values: the column c set (appended when new) to values[i] in row i.
SetColumn(d, c, dtype, values) ==
    [cols |-> IF \E i \in 1..Len(d.cols) : d.cols[i] = c THEN d.cols ELSE Append(d.cols, c),
     dt   |-> (c :> dtype) @@ d.dt,
     rows |-> [i \in 1..Len(d.rows) |->
                  [d.rows[i] EXCEPT !.row = (c :> values[i]) @@ d.rows[i].row]]]

\* df[c] = value: the column c set to one value in every row.
SetScalar(d, c, dtype, value) == SetColumn(d, c, dtype, [i \in 1..Len(d.rows) |-> value])

\* The dtype pandas gives column c of the sheet.
ColumnDtype(c, rows, schema) ==
    IF schema # None THEN (IF schema[c] = "str" THEN "O" ELSE schema[c])
    ELSE IF rows = <<>> THEN "O"
    ELSE IF c \in TextCols
         THEN (IF \E i \in 1..Len(rows) : rows[i].row[c] # NaN THEN "O" ELSE "float64")
         ELSE (IF \E i \in 1..Len(rows) : rows[i].row[c] = NaN THEN "float64" ELSE "int64")

\* A cell as read into a column of the given dtype.
AsDtype(x, dtype) == IF dtype = "float64" /\ x.t = "num" THEN Flt(x.n) ELSE x

\* pd.read_excel(file_path, dtype = schema): raises when the file cannot be read
\* and when the schema types a column holding a blank cell as an integer.
read_excel(rows, schema, readable) ==
    IF \/ ~readable
       \/ /\ schema # None
          /\ \E i \in 1..Len(rows) : \E c \in NumCols : rows[i].row[c] = NaN
    THEN [raised |-> TRUE]
    ELSE LET dt == [c \in TextCols \cup NumCols |-> ColumnDtype(c, rows, schema)]
         IN  [raised |-> FALSE,
              df |-> [cols |-> SourceCols,
                      dt   |-> dt,
                      rows |-> [i \in 1..Len(rows) |->
                                  [rows[i] EXCEPT !.row =
                                      [c \in DOMAIN rows[i].row |-> AsDtype(rows[i].row[c], dt[c])]]]]]

\* datetime.now().strftime("%Y-%m-%d %H:%M:%S"): a date, one blank, a time.
load_time == <<"Y", "-", "m", "-", "d", " ", "H", ":", "M", ":", "S">>

load_data_and_add_metadata(file_path, schema, readable) ==
    LET r == read_excel(sheet, schema, readable)
    IN  IF r.raised THEN None
        ELSE SetScalar(SetScalar(r.df, "_Record_Source", "O", Str(file_path)),
                       "_Load_Date", "O", Str(load_time))

\* text.strip() inside remove_whitespaces: only a str has the method.
HasStrip(x) == x.t \in {"str", "md5"}

remove_whitespaces(text) == IF text.t = "str" THEN Str(strip(text.s)) ELSE text

\* The loop of trim_all_spaces from column i on: the frame is changed in place,
\* so the columns before a raising one stay trimmed.
RECURSIVE TrimFrom(_, _)
TrimFrom(d, i) ==
    IF i > Len(d.cols) THEN [raised |-> FALSE, df |-> d]
    ELSE LET c == d.cols[i]
         IN  IF d.dt[c] # "O" THEN TrimFrom(d, i + 1)
             ELSE IF \E k \in 1..Len(d.rows) : ~HasStrip(d.rows[k].row[c])
                  THEN [raised |-> TRUE, df |-> d]
                  ELSE TrimFrom(SetColumn(d, c, "O",
                                          [k \in 1..Len(d.rows) |->
                                              remove_whitespaces(d.rows[k].row[c])]),
                                i + 1)

trim_all_spaces(d) == TrimFrom(d, 1)

-----------------------------------------------------------------------------
(* Validator *)

valid_cost_object_types == {Str(CostCenter), Str(WBS), Str(COPA)}

IsNumber(x) == x.t \in {"num", "float"}

\* Positions selected by ~df['Cost_Object_Type'].isin(valid_cost_object_types).
Rule1(rows) == {i \in 1..Len(rows) : rows[i].row["Cost_Object_Type"] \notin valid_cost_object_types}

\* Positions selected by df['Year'] < 2000 (a comparison with NaN is False).
Rule2(rows) == {i \in 1..Len(rows) : IsNumber(rows[i].row["Year"]) /\ rows[i].row["Year"].n < 2000}

\* Positions selected by (df['Period'] < 1) | (df['Period'] > 12).
Rule3(rows) ==
    {i \in 1..Len(rows) : /\ IsNumber(rows[i].row["Period"])
                          /\ \/ rows[i].row["Period"].n < 1
                             \/ rows[i].row["Period"].n > 12}

\* df[mask] with the column Error_Type set: the selected rows under their index labels.
RECURSIVE InvalidRows(_, _, _, _)
InvalidRows(rows, mask, error_type, i) ==
    IF i > Len(rows) THEN <<>>
    ELSE (IF i \in mask
          THEN <<[row   |-> ("Error_Type" :> Str(error_type)) @@ rows[i].row,
                  n     |-> rows[i].n,
                  index |-> i]>>
          ELSE <<>>) \o InvalidRows(rows, mask, error_type, i + 1)

InvalidCostObjectType ==
    <<"I", "n", "v", "a", "l", "i", "d", " ", "C", "o", "s", "t", " ",
      "O", "b", "j", "e", "c", "t", " ", "T", "y", "p", "e">>
InvalidYearFormat ==
    <<"I", "n", "v", "a", "l", "i", "d", " ", "Y", "e", "a", "r", " ",
      "F", "o", "r", "m", "a", "t">>
InvalidPeriodFormat ==
    <<"I", "n", "v", "a", "l", "i", "d", " ", "P", "e", "r", "i", "o", "d", " ",
      "F", "o", "r", "m", "a", "t">>

\* pd.concat([invalid_rows_rule1, invalid_rows_rule2, invalid_rows_rule3])
invalid_rows_combined(rows) ==
    InvalidRows(rows, Rule1(rows), InvalidCostObjectType, 1)
        \o InvalidRows(rows, Rule2(rows), InvalidYearFormat, 1)
        \o InvalidRows(rows, Rule3(rows), InvalidPeriodFormat, 1)

NoFile == [py |-> "no file"]

\* data_validation: the frame returned, the invalid rows collected, and the
\* file written under "Error Output" (NoFile when none is).
data_validation(d, save_invalid) ==
    LET combined == invalid_rows_combined(d.rows)
        dropped  == {combined[k].index : k \in 1..Len(combined)}
    IN  [df      |-> [d EXCEPT !.rows = Select(d.rows, (1..Len(d.rows)) \ dropped, 1)],
         invalid |-> combined,
         file    |-> IF save_invalid /\ combined # <<>> THEN [rows |-> combined] ELSE NoFile]

-----------------------------------------------------------------------------
(* Hasher *)

Sentinel == <<"_">>

md5_hash(input) == Digest(PyStr(IF input = None THEN Str(Sentinel) ELSE input))

\* row['Cost_Object'] + '|' + row['Controlling_Area'] is defined on two str only.
CanConcat(row) == row["Cost_Object"].t = "str" /\ row["Controlling_Area"].t = "str"

cost_object_hsk(row) ==
    IF row["Cost_Object_Type"] = Str(CostCenter)
    THEN md5_hash(Str(row["Cost_Object"].s \o <<"|">> \o row["Controlling_Area"].s))
    ELSE md5_hash(row["Cost_Object"])

\* df['Cost_Element'].astype(str) + df['Controlling_Area']: the sum of a str and
\* a missing value is missing.
cost_element_ctr_area(row) ==
    IF row["Controlling_Area"].t = "str"
    THEN Str(PyStr(row["Cost_Element"]) \o row["Controlling_Area"].s)
    ELSE NaN

fiscal_period(row) ==
    Str(PyStr(row["Year"]) \o zfill(PyStr(row["Period"]), 2) \o <<"0", "1">>)

\* hash_transformation: the frame is changed in place, column by column, so a
\* raise leaves the columns set before it. On a frame without rows the row-wise
\* apply returns a frame or a series, depending on the pandas release: its
\* assignment to one column raises in the first case (empty_apply_raises).
hash_transformation(d, empty_apply_raises) ==
    LET rows == 1..Len(d.rows)
        d1 == SetColumn(d, "CONTROLLING_AREA_HSK", "O",
                        [i \in rows |-> md5_hash(d.rows[i].row["Controlling_Area"])])
        d2 == SetColumn(d1, "COMPANY_CODE_HSK", "O",
                        [i \in rows |-> md5_hash(d.rows[i].row["Company_Code"])])
        raises ==
            \/ d.rows = <<>> /\ empty_apply_raises
            \/ \E i \in 1..Len(d.rows) :
                   /\ d.rows[i].row["Cost_Object_Type"] = Str(CostCenter)
                   /\ ~CanConcat(d.rows[i].row)
    IN  IF raises THEN [raised |-> TRUE, df |-> d2]
        ELSE LET d3 == SetColumn(d2, "COST_OBJECT_HSK", "O",
                                 [i \in rows |-> cost_object_hsk(d.rows[i].row)])
                 d4 == SetColumn(d3, "COST_ELEMENT_CTR_AREA_HSK", "O",
                                 [i \in rows |-> md5_hash(cost_element_ctr_area(d.rows[i].row))])
                 d5 == SetColumn(d4, "CURRENCY_HSK", "O",
                                 [i \in rows |-> md5_hash(d.rows[i].row["Currency"])])
             IN  [raised |-> FALSE,
                  df |-> SetColumn(d5, "FISCAL_PERIOD", "O",
                                   [i \in rows |-> fiscal_period(d.rows[i].row)])]

-----------------------------------------------------------------------------
(* Sink Writer *)

\* The columns the INSERT statement names.
DestCols == <<"controlling_area", "company_code", "cost_object", "cost_object_type",
              "cost_element", "year", "period", "currency", "amount", "_record_source",
              "_load_date", "controlling_area_hsk", "company_code_hsk", "cost_object_hsk",
              "cost_element_ctr_area_hsk", "currency_hsk", "fiscal_period">>

page_size == 100

\* read_config_file(): the parameters of the section, or an exception when
\* database.ini has no section "postgresql".
read_config_file(has_section) == IF has_section THEN [raised |-> FALSE] ELSE [raised |-> TRUE]

\* df.to_records(index = False): one tuple per row, in column order.
to_records(d) ==
    [i \in 1..Len(d.rows) |->
        [row |-> [k \in 1..Len(d.cols) |-> d.rows[i].row[d.cols[k]]], n |-> d.rows[i].n]]

\* A truncate that removes nothing.
truncate_nothing(table) == table

\* TRUNCATE TABLE manual_upload_tlnk, inside the transaction.
truncate(table) == <<>>

\* The pages execute_values makes of the records, page_size rows each.
NPages(records) == (NRows(records) + page_size - 1) \div page_size

Page(records, k) == Take(Drop(records, (k - 1) * page_size), page_size)

\* execute_values: one INSERT per page, pages 1..k executed on the table.
RECURSIVE execute_values(_, _, _)
execute_values(table, records, k) ==
    IF k = 0 THEN table ELSE execute_values(table, records, k - 1) \o Page(records, k)

\* The first page whose INSERT fails (0: none): a tuple that has not one value
\* per column named fails on the first page, and the database may fail any page.
FailingPage(d, records, fault) ==
    IF NPages(records) > 0 /\ Len(d.cols) # Len(DestCols) THEN 1
    ELSE IF fault.at = "insert" /\ fault.page <= NPages(records) THEN fault.page
    ELSE 0

\* A connection in autocommit mode: every statement executed is kept.
connection_close_autocommit(committed_rows, transaction_rows, committed) ==
    Norm(transaction_rows)

\* connection.close(): the work of the transaction is kept only if committed.
connection_close(committed_rows, transaction_rows, committed) ==
    IF committed THEN Norm(transaction_rows) ELSE committed_rows

\* A close that is skipped.
finally_skipped(connection) == connection

\* The finally clause: the connection is closed when one was acquired.
finally(connection) == IF connection # "none" THEN "closed" ELSE connection

\* What the environment of a write_to_postgres call may do: database.ini
\* without its section, or the database failing at one step.
Faults ==
    {[at |-> a, page |-> 0] : a \in {"none", "config", "connect", "truncate", "commit"}}
        \cup {[at |-> "insert", page |-> k] : k \in 1..MaxGroups}

\* write_to_postgres(df) with the database failing as fault says: the committed
\* rows, the connection, and the record of what was done.
write_to_postgres(d, fault) ==
    LET Result(outcome, connection, table, committed, pages, reported) ==
            [dest     |-> connection_close(dest, table, committed),
             conn     |-> finally(connection),
             outcome  |-> outcome,
             acquired |-> connection # "none",
             truncated |-> outcome \in {"insert", "commit", "ok"},
             committed |-> committed,
             pages    |-> pages,
             reported |-> reported]
    IN  IF read_config_file(fault.at # "config").raised THEN Result("config", "none", dest, FALSE, 0, -1)
        ELSE IF fault.at = "connect" THEN Result("connect", "none", dest, FALSE, 0, -1)
        ELSE IF d = None THEN Result("records", "open", dest, FALSE, 0, -1)
        ELSE IF fault.at = "truncate" THEN Result("truncate", "open", dest, FALSE, 0, -1)
        ELSE LET records == to_records(d)
                 failing == FailingPage(d, records, fault)
             IN  IF failing > 0
                 THEN Result("insert", "open",
                             execute_values(truncate(dest), records, failing - 1),
                             FALSE, failing - 1, -1)
                 ELSE LET table == execute_values(truncate(dest), records, NPages(records))
                      IN  IF fault.at = "commit"
                          THEN Result("commit", "open", table, FALSE, NPages(records), -1)
                          ELSE Result("ok", "open", table, TRUE, NPages(records),
                                      NRows(records))

-----------------------------------------------------------------------------
(* DataProcessingPipeline *)

\* The record of a method call: the method, whether the stage function ran
\* (the held table was not None), whether an exception was raised in it.
Called(op, ran, raised) == [op |-> op, ran |-> ran, raised |-> raised]

\* The rows manual_upload_tlnk holds before the run.
PriorRows == <<[row |-> [k \in 1..Len(DestCols) |-> Str(<<"o", "l", "d">>)], n |-> 1]>>

Init ==
    /\ sheet \in Sheets
    /\ source = None
    /\ df = None
    /\ status = "running"
    /\ last = Called("init", FALSE, FALSE)
    /\ quarantine = NoFile
    /\ dest = PriorRows
    /\ conn = "none"

load_data ==
    /\ status = "running"
    /\ \E file_path \in Paths, schema \in {None, TypedSchema}, readable \in BOOLEAN :
          /\ df' = load_data_and_add_metadata(file_path, schema, readable)
          /\ source' = Str(file_path)
          /\ last' = Called("load_data", TRUE, read_excel(sheet, schema, readable).raised)
    /\ UNCHANGED <<sheet, status, quarantine, dest, conn>>

trim_spaces ==
    /\ status = "running"
    /\ IF df # None
       THEN LET r == trim_all_spaces(df)
            IN  /\ df' = r.df
                /\ status' = IF r.raised THEN "raised" ELSE status
                /\ last' = Called("trim_spaces", TRUE, r.raised)
       ELSE /\ last' = Called("trim_spaces", FALSE, FALSE)
            /\ UNCHANGED <<df, status>>
    /\ UNCHANGED <<sheet, source, quarantine, dest, conn>>

validate_data ==
    /\ status = "running"
    /\ \E save_invalid \in BOOLEAN :
          IF df # None
          THEN LET r == data_validation(df, save_invalid)
               IN  /\ df' = r.df
                   /\ quarantine' = IF r.file # NoFile THEN r.file ELSE quarantine
                   /\ last' = [op |-> "validate_data", ran |-> TRUE, raised |-> FALSE,
                               input |-> df.rows, invalid |-> r.invalid,
                               save_invalid |-> save_invalid, file |-> r.file]
          ELSE /\ last' = Called("validate_data", FALSE, FALSE)
               /\ UNCHANGED <<df, quarantine>>
    /\ UNCHANGED <<sheet, source, status, dest, conn>>

hash_transform ==
    /\ status = "running"
    /\ IF df # None
       THEN \E empty_apply_raises \in (IF df.rows = <<>> THEN BOOLEAN ELSE {FALSE}) :
               LET r == hash_transformation(df, empty_apply_raises)
               IN  /\ df' = r.df
                   /\ status' = IF r.raised THEN "raised" ELSE status
                   /\ last' = [op |-> "hash_transform", ran |-> TRUE, raised |-> r.raised,
                               input |-> df.rows]
       ELSE /\ last' = Called("hash_transform", FALSE, FALSE)
            /\ UNCHANGED <<df, status>>
    /\ UNCHANGED <<sheet, source, quarantine, dest, conn>>

\* The method without its "if self.df is not None".
pipeline_write_to_postgres_unguarded ==
    /\ status = "running"
    /\ \E fault \in Faults :
          /\ fault.page <= (IF df = None THEN 0 ELSE NPages(df.rows))
          /\ LET r == write_to_postgres(df, fault)
             IN  /\ dest' = r.dest
                 /\ conn' = r.conn
                 /\ last' = [op |-> "write_to_postgres", ran |-> TRUE,
                             raised |-> r.outcome # "ok", outcome |-> r.outcome,
                             prior |-> dest, acquired |-> r.acquired,
                             truncated |-> r.truncated, committed |-> r.committed,
                             pages |-> r.pages, reported |-> r.reported]
    /\ UNCHANGED <<sheet, source, df, status, quarantine>>

pipeline_write_to_postgres ==
    /\ status = "running"
    /\ IF df # None
       THEN \E fault \in Faults :
               /\ fault.page <= NPages(df.rows)
               /\ LET r == write_to_postgres(df, fault)
                  IN  /\ dest' = r.dest
                      /\ conn' = r.conn
                      /\ last' = [op |-> "write_to_postgres", ran |-> TRUE,
                                  raised |-> r.outcome # "ok", outcome |-> r.outcome,
                                  prior |-> dest, acquired |-> r.acquired,
                                  truncated |-> r.truncated, committed |-> r.committed,
                                  pages |-> r.pages, reported |-> r.reported]
       ELSE /\ last' = Called("write_to_postgres", FALSE, FALSE)
            /\ UNCHANGED <<dest, conn>>
    /\ UNCHANGED <<sheet, source, df, status, quarantine>>

\* The place of a method in the chain load_data, trim_spaces, validate_data,
\* hash_transform, write_to_postgres.
Rank(op) ==
    CASE op = "init" -> 0
      [] op = "load_data" -> 1
      [] op = "trim_spaces" -> 2
      [] op = "validate_data" -> 3
      [] op = "hash_transform" -> 4
      [] op = "write_to_postgres" -> 5

\* A chain of method calls on one DataProcessingPipeline: the methods in the
\* order of the chain, each at most once, any of them left out.
Next ==
    \/ Rank(last.op) < Rank("load_data") /\ load_data
    \/ Rank(last.op) < Rank("trim_spaces") /\ trim_spaces
    \/ Rank(last.op) < Rank("validate_data") /\ validate_data
    \/ Rank(last.op) < Rank("hash_transform") /\ hash_transform
    \/ Rank(last.op) < Rank("write_to_postgres") /\ pipeline_write_to_postgres

Spec == Init /\ [][Next]_vars

\* The chain of RunETL.py: every method once, in the order written there.
RunETL ==
    \/ last.op = "init" /\ load_data
    \/ last.op = "load_data" /\ trim_spaces
    \/ last.op = "trim_spaces" /\ validate_data
    \/ last.op = "validate_data" /\ hash_transform
    \/ last.op = "hash_transform" /\ pipeline_write_to_postgres

SpecRunETL == Init /\ [][RunETL]_vars

-----------------------------------------------------------------------------
(* The validation rules as the specification states them *)

\* R1: Cost_Object_Type is one of Cost Center, WBS, COPA.
R1(row) == row["Cost_Object_Type"] \in {Str(CostCenter), Str(WBS), Str(COPA)}

\* R2: Year >= 2000.
R2(row) == IsNumber(row["Year"]) /\ row["Year"].n >= 2000

\* R3: 1 <= Period <= 12.
R3(row) == IsNumber(row["Period"]) /\ row["Period"].n >= 1 /\ row["Period"].n <= 12

RowValid(row) == R1(row) /\ R2(row) /\ R3(row)

WithoutTag(row) == [c \in DOMAIN row \ {"Error_Type"} |-> row[c]]

\* How many rows of g equal r, the Error_Type tag aside.
RECURSIVE CountOf(_, _)
CountOf(g, r) ==
    IF g = <<>> THEN 0
    ELSE (IF WithoutTag(Head(g).row) = r THEN Head(g).n ELSE 0) + CountOf(Tail(g), r)

ValidateRan == last.op = "validate_data" /\ last.ran
HashRan == last.op = "hash_transform" /\ last.ran
WriteRan == last.op = "write_to_postgres" /\ last.ran

-----------------------------------------------------------------------------
(* Claims *)

\* C1: data_validation partitions the rows: every returned row satisfies R1, R2
\* and R3, every row collected as invalid violates one of them, and the
\* returned rows together with the invalid rows are the input rows, as a
\* multiset (N rows in, K failing: N-K returned, K collected).
C1_Partition ==
    ValidateRan =>
        /\ \A i \in 1..Len(df.rows) : RowValid(df.rows[i].row)
        /\ \A k \in 1..Len(last.invalid) : ~RowValid(last.invalid[k].row)
        /\ \A i \in 1..Len(last.input) :
              CountOf(last.input, last.input[i].row)
                  = CountOf(df.rows, last.input[i].row)
                        + CountOf(last.invalid, last.input[i].row)
        /\ NRows(df.rows) + NRows(last.invalid) = NRows(last.input)

\* The Error_Type of the first rule a row fails, in the order R1, R2, R3.
FirstFailed(row) ==
    IF ~R1(row) THEN InvalidCostObjectType
    ELSE IF ~R2(row) THEN InvalidYearFormat
    ELSE InvalidPeriodFormat

\* The records collected for the input row at position i.
TagsOf(i) == {k \in 1..Len(last.invalid) : last.invalid[k].index = i}

\* C2: every row that fails validation is collected with exactly one
\* Error_Type, that of the first rule it fails in the order R1, R2, R3.
C2_FirstRuleOnly ==
    ValidateRan =>
        \A i \in 1..Len(last.input) :
            ~RowValid(last.input[i].row) =>
                /\ Cardinality(TagsOf(i)) = 1
                /\ \A k \in TagsOf(i) :
                      last.invalid[k].row["Error_Type"] = Str(FirstFailed(last.input[i].row))

LaterStages == {"trim_spaces", "validate_data", "hash_transform", "write_to_postgres"}

\* C3: when the read of load_data raises, the pipeline holds no table, and a
\* call of a later stage on a pipeline that holds no table runs no stage
\* function and leaves the table absent, the quarantine file, the destination
\* table and the connection as they were.
C3_FailedLoadNoOps ==
    [][ /\ (last'.op = "load_data" /\ last'.raised) => df' = None
        /\ (df = None /\ last'.op \in LaterStages) =>
              /\ df' = None
              /\ ~last'.ran
              /\ UNCHANGED <<quarantine, dest, conn, status>> ]_vars

\* C3 witness: load_data failed and the chain ran on to write_to_postgres,
\* which did nothing.
C3_Witness ==
    /\ source # None
    /\ df = None
    /\ last.op = "write_to_postgres"
    /\ ~last.ran
    /\ conn = "none"
    /\ dest = PriorRows
    /\ quarantine = NoFile

\* C4: after write_to_postgres completes without error on a table, the
\* destination holds exactly the rows of the table, none of the rows it held
\* before, and the count reported is the number of rows of the table; a table
\* without rows leaves the destination truncated and empty, with 0 reported.
C4_Replaced ==
    (WriteRan /\ last.outcome = "ok") =>
        /\ last.truncated
        /\ dest = Norm(to_records(df))
        /\ last.reported = NRows(df.rows)
        /\ df.rows = <<>> => (dest = <<>> /\ last.reported = 0)

\* C4 witness: every row of a sheet with rows failed validation, and the write
\* of the empty table succeeded on a destination that held rows.
C4_Witness ==
    /\ WriteRan
    /\ last.outcome = "ok"
    /\ sheet # <<>>
    /\ df.rows = <<>>
    /\ last.prior # <<>>
    /\ dest = <<>>
    /\ last.reported = 0

\* A successful write of a table of more than one page.
C4_WitnessPages == WriteRan /\ last.outcome = "ok" /\ last.pages > 1 /\ dest # <<>>

\* C5: when the truncate or an insert page fails, write_to_postgres reports the
\* error, inserts no further page and commits nothing: the destination holds
\* what it held before the call. After any call the destination holds either
\* that or all the rows of the table, never a part of them.
C5_AllOrNothing ==
    WriteRan =>
        /\ last.outcome \in {"truncate", "insert"} =>
              /\ last.raised
              /\ ~last.committed
              /\ dest = last.prior
        /\ last.outcome = "truncate" => last.pages = 0
        /\ last.outcome = "insert" => last.pages < NPages(to_records(df))
        /\ dest \in {last.prior, Norm(to_records(df))}

\* C5 witness: the second page failed after the first was inserted.
C5_Witness ==
    /\ WriteRan
    /\ last.outcome = "insert"
    /\ last.pages = 1
    /\ Len(df.cols) = Len(DestCols)
    /\ dest = last.prior

\* C6: a connection write_to_postgres acquired is closed when it returns, on
\* every path.
C6_ConnectionReleased ==
    /\ conn # "open"
    /\ (WriteRan /\ last.acquired) => conn = "closed"

\* C6 witness: the commit failed and the connection is closed.
C6_Witness == WriteRan /\ last.outcome = "commit" /\ last.acquired /\ conn = "closed"

C6_WitnessTruncate == WriteRan /\ last.outcome = "truncate" /\ conn = "closed"
C6_WitnessInsert == WriteRan /\ last.outcome = "insert" /\ conn = "closed"
C6_WitnessOk == WriteRan /\ last.outcome = "ok" /\ conn = "closed"

\* C7: a missing configuration section is fatal: the exception leaves the
\* pipeline, and the run has written no quarantine file and truncated nothing.
C7_ConfigErrorFatal ==
    (WriteRan /\ last.outcome = "config") =>
        /\ status = "raised"
        /\ quarantine = NoFile
        /\ ~last.truncated

\* C8: in every row the pipeline holds, _Record_Source is the source identifier
\* passed to load_data and _Load_Date the time of the load, whatever stages ran.
C8_ProvenanceKept ==
    df # None =>
        \A i \in 1..Len(df.rows) :
            /\ df.rows[i].row["_Record_Source"] = source
            /\ df.rows[i].row["_Load_Date"] = Str(load_time)

HashInputs == {"Controlling_Area", "Company_Code", "Cost_Object", "Cost_Element", "Currency"}

OrSentinel(x) == IF x \in {NaN, None} THEN Str(Sentinel) ELSE x

\* The five keys of a row with "_" in place of every absent input.
KeysWithSentinel(row) ==
    LET in == [c \in HashInputs |-> PyStr(OrSentinel(row[c]))]
    IN  [CONTROLLING_AREA_HSK |-> Digest(in["Controlling_Area"]),
         COMPANY_CODE_HSK |-> Digest(in["Company_Code"]),
         COST_OBJECT_HSK |->
             IF row["Cost_Object_Type"] = Str(CostCenter)
             THEN Digest(in["Cost_Object"] \o <<"|">> \o in["Controlling_Area"])
             ELSE Digest(in["Cost_Object"]),
         COST_ELEMENT_CTR_AREA_HSK |-> Digest(in["Cost_Element"] \o in["Controlling_Area"]),
         CURRENCY_HSK |-> Digest(in["Currency"])]

\* C9: on a table with an absent hash input, hash_transformation does not fail
\* and every key is the digest computed with "_" in place of the absent input.
C9_SentinelForAbsent ==
    (HashRan /\ \E i \in 1..Len(last.input) : \E c \in HashInputs : last.input[i].row[c] = NaN) =>
        /\ ~last.raised
        /\ \A i \in 1..Len(df.rows) :
              \A key \in DOMAIN KeysWithSentinel(df.rows[i].row) :
                  df.rows[i].row[key] = KeysWithSentinel(df.rows[i].row)[key]

\* C10: every row hash_transform or write_to_postgres acts on satisfies R1, R2
\* and R3.
C10_ValidatedFirst ==
    (HashRan \/ WriteRan) => \A i \in 1..Len(df.rows) : RowValid(df.rows[i].row)

====
